---------------------------- MODULE Spec2Model ----------------------------
(***************************************************************************)
(* A model of the dense vector / dense matrix utilities of                 *)
(* src/utilities/linear_algebra: the sub-vector packing protocol           *)
(* (ToSubVector / FromSubVector), the blocked kernel                       *)
(* VectorHadamardIncrement, the BLAS-backed vector kernels, the matrix     *)
(* container (resize, operator(), SetRow) and the cross-rank               *)
(* synchronisation (MpiSyncVector, matrix::MpiSync).                       *)
(*                                                                         *)
(* Conventions.  A std::vector<double> is a sequence; C++ index i is       *)
(* position i+1 of the sequence.  Doubles are modelled by small integers,  *)
(* on which the products and sums taken here are exact.  An operation of   *)
(* the single-threaded library is one action; the collective               *)
(* synchronisation is one action per Sync call of each rank.               *)
(***************************************************************************)
EXTENDS Integers, Sequences, FiniteSets, TLC

VARIABLES
    \* ---- sub-vector packing scenario ----
    sub,        \* dvec sub
    input,      \* dvec input
    output,     \* dvec output
    offset,     \* unsigned int offset
    zeros,      \* std::vector<unsigned int> zeros
    ppc,        \* position of the packing caller
    copies,     \* the CopyVector calls issued by the last packing call
    via,        \* which overload the last packing call was
    \* ---- VectorHadamardIncrement(a, scale, b) ----
    ha,         \* dvec a
    hscale,     \* double scale
    hb,         \* dvec b
    hpc,        \* position of the caller
    \* ---- BLAS-backed vector kernels ----
    kout,       \* the operand written: output / c / the in-place a
    ka,         \* first read-only operand: a / input
    kb,         \* second read-only operand: b
    kscale,     \* double scale
    kret,       \* the double VectorDot returned
    kname,      \* the kernel called
    kpc,        \* position of the caller
    \* ---- matrices / vectors on the ranks of an MPI job ----
    kind,       \* the container each rank holds: "matrix" or "vector"
    lead,       \* lead[r]: m_dLeading of rank r's matrix
    sec,        \* sec[r]: m_dSecond of rank r's matrix
    data,       \* data[r]: m_data of rank r's matrix, or rank r's dvec
    dim,        \* dim[r]: the local dim of rank r's MpiSyncVector call
    pc,         \* pc[r]: position of rank r
    syncNode,   \* the syncNode every rank passes
    bcast,      \* the values the source rank has handed to Sync, in order
    seq,        \* seq[r]: the number of Sync calls rank r has completed
    log,        \* log[r]: what rank r's current or last synchronisation did
    pre,        \* the source rank's container when it last began to synchronise
    acc,        \* the last operator() call: its arguments and outcome
    ops         \* the number of operations called so far

packVars == <<sub, input, output, offset, zeros, ppc, copies, via>>
hadVars == <<ha, hscale, hb, hpc>>
kernVars == <<kout, ka, kb, kscale, kret, kname, kpc>>

matVars == <<kind, lead, sec, data, dim, pc, syncNode, bcast, seq, log, pre, acc, ops>>

vars == <<packVars, hadVars, kernVars, matVars>>

\* What an operation of one part of the library leaves alone.
notPack == <<hadVars, kernVars, matVars>>
notHad == <<packVars, kernVars, matVars>>
notKern == <<packVars, hadVars, matVars>>
notMat == <<packVars, hadVars, kernVars>>

(***************************************************************************)
(* Bounds of the model.                                                    *)
(***************************************************************************)
MaxSub == 3
MaxOffset == 1
MaxLen == 4
MaxVecLen == 130
MaxKernLen == 2
MaxDim == 2
MaxOps == 3

\* The scalar values a buffer holds initially.
Val == {1, 2}

(***************************************************************************)
(* Helpers on sequences.                                                   *)
(***************************************************************************)
\* The strictly increasing sequences over 0..n-1 (the zero-skip index sets).
IsStrictlyIncreasing(s) == \A i \in 1..(Len(s) - 1) : s[i] < s[i + 1]

ZeroSeqs(n) ==
    UNION { { s \in [1..k -> 0..(n - 1)] : IsStrictlyIncreasing(s) } : k \in 0..n }

\* Number of entries of zs that are smaller than j.
ZerosBelow(zs, j) == Cardinality({ i \in 1..Len(zs) : zs[i] < j })

IsZero(zs, j) == \E i \in 1..Len(zs) : zs[i] = j

(***************************************************************************)
(* CopyVector(out, in, N): ccopy_ with unit strides copies N 8-byte        *)
(* elements from in[0..N) to out[0..N).  dst/src are the vectors the       *)
(* pointers point into, di/si the indices of the pointed-to elements.      *)
(***************************************************************************)
CopyVector(dst, di, src, si, N) ==
    [k \in 1..Len(dst) |->
        IF (k - 1) >= di /\ (k - 1) < di + N
        THEN src[(k - 1) - di + si + 1]
        ELSE dst[k]]

\* A call record: CopyVector(&D[dst], &S[src], n).
Call(d, s, n) == [dst |-> d, src |-> s, n |-> n]

(***************************************************************************)
(* ToSubVector(sub, input, offset, zeros): the sequence of CopyVector      *)
(* calls it issues.  dst indexes sub, src indexes input.                   *)
(***************************************************************************)
RECURSIVE ToSubLoop(_, _, _, _, _)
ToSubLoop(zs, i, nzStart, nnzCumulative, issued) ==
    IF i > Len(zs)
    THEN [calls |-> issued, nzStart |-> nzStart, nnzCumulative |-> nnzCumulative]
    ELSE LET nnzConsecutive == zs[i] - nzStart
             issued2 == IF nnzConsecutive # 0
                     THEN Append(issued, Call(nzStart, nnzCumulative, nnzConsecutive))
                     ELSE issued
         IN  ToSubLoop(zs, i + 1, zs[i] + 1, nnzCumulative + nnzConsecutive, issued2)

\* A faulty variant of ToSubCalls: nnzCumulative starts at 0, not at offset.
ToSubCalls_IgnoresOffset(n, off, zs) ==
    LET l == ToSubLoop(zs, 1, 0, 0, <<>>)
    IN  Append(l.calls, Call(l.nzStart, l.nnzCumulative, n - l.nzStart))

\* int nnzCumulative = offset; int nzStart = 0; the loop; then the run after
\* the last entry of zeros, copied whatever its length.
ToSubCalls(n, off, zs) ==
    LET l == ToSubLoop(zs, 1, 0, off, <<>>)
    IN  Append(l.calls, Call(l.nzStart, l.nnzCumulative, n - l.nzStart))

\* The overload without zeros: CopyVector(&sub[0], &input[offset], N).
ToSubCallsNoZeros(n, off) == << Call(0, off, n) >>

(***************************************************************************)
(* FromSubVector(sub, output, offset, zeros): the sequence of CopyVector   *)
(* calls it issues.  dst indexes output, src indexes sub.                  *)
(***************************************************************************)
RECURSIVE FromSubLoop(_, _, _, _, _)
FromSubLoop(zs, i, nzStart, nnzCumulative, issued) ==
    IF i > Len(zs)
    THEN [calls |-> issued, nzStart |-> nzStart, nnzCumulative |-> nnzCumulative]
    ELSE LET nnzConsecutive == zs[i] - nzStart
             issued2 == IF nnzConsecutive # 0
                     THEN Append(issued, Call(nnzCumulative, nzStart, nnzConsecutive))
                     ELSE issued
         IN  FromSubLoop(zs, i + 1, zs[i] + 1, nnzCumulative + nnzConsecutive, issued2)

\* A faulty variant of FromSubCalls: nnzCumulative starts at 0, not at offset.
FromSubCalls_IgnoresOffset(n, off, zs) ==
    LET l == FromSubLoop(zs, 1, 0, 0, <<>>)
    IN  Append(l.calls, Call(l.nnzCumulative, l.nzStart, n - l.nzStart))

\* int nnzCumulative = offset; int nzStart = 0; the loop; then the run after
\* the last entry of zeros, copied whatever its length.
FromSubCalls(n, off, zs) ==
    LET l == FromSubLoop(zs, 1, 0, off, <<>>)
    IN  Append(l.calls, Call(l.nnzCumulative, l.nzStart, n - l.nzStart))

\* The overload without zeros: CopyVector(&output[offset], &sub[0], N).
FromSubCallsNoZeros(n, off) == << Call(off, 0, n) >>

(***************************************************************************)
(* Running a sequence of CopyVector calls.  v[i] with i = v.size() forms a *)
(* reference to the element one past the end: undefined behaviour, which a *)
(* plain build turns into pointer arithmetic and a hardened build (the     *)
(* library's assertions enabled) into an abort at that call.               *)
(***************************************************************************)
RefsPastEnd(c, dstLen, srcLen) == c.dst >= dstLen \/ c.src >= srcLen

\* Index of the first call that forms a reference past the end, 0 if none.
FirstPastEnd(calls, dstLen, srcLen) ==
    LET bad == { i \in 1..Len(calls) : RefsPastEnd(calls[i], dstLen, srcLen) }
    IN  IF bad = {} THEN 0 ELSE CHOOSE i \in bad : \A j \in bad : i <= j

RECURSIVE ApplyCopies(_, _, _, _)
ApplyCopies(dst, src, calls, upto) ==
    IF upto = 0
    THEN dst
    ELSE LET c == calls[upto]
         IN  CopyVector(ApplyCopies(dst, src, calls, upto - 1), c.dst, src, c.src, c.n)

(***************************************************************************)
(* The packing scenario: a caller packs input into sub, then unpacks sub   *)
(* into output, with the same offset and zeros.  The buffers are as long   *)
(* as the protocol requires: offset + sub.size() - zeros.size().           *)
(***************************************************************************)
Needed(n, off, zs) == off + n - Len(zs)

SubFresh(n) == [j \in 1..n |-> -j]
OutputFresh(n) == [k \in 1..n |-> -(10 + k)]

PackIdle ==
    /\ sub = <<>>
    /\ input = <<>>
    /\ output = <<>>
    /\ offset = 0
    /\ zeros = <<>>
    /\ ppc = "unused"
    /\ copies = <<>>
    /\ via = "none"

HadIdle ==
    /\ ha = <<>>
    /\ hscale = 0
    /\ hb = <<>>
    /\ hpc = "unused"

KernIdle ==
    /\ kout = <<>>
    /\ ka = <<>>
    /\ kb = <<>>
    /\ kscale = 0
    /\ kret = 0
    /\ kname = "none"
    /\ kpc = "unused"

NoAccess == [rank |-> -1]

MatIdle ==
    /\ kind = "none"
    /\ lead = <<>>
    /\ sec = <<>>
    /\ data = <<>>
    /\ dim = <<>>
    /\ pc = <<>>
    /\ syncNode = 0
    /\ bcast = <<>>
    /\ seq = <<>>
    /\ log = <<>>
    /\ pre = <<>>
    /\ acc = NoAccess
    /\ ops = 0

InitPack ==
    /\ HadIdle /\ KernIdle /\ MatIdle
    /\ \E n \in 0..MaxSub :
         /\ sub = SubFresh(n)
         /\ zeros \in ZeroSeqs(n)
    /\ offset \in 0..MaxOffset
    /\ \E li \in 0..MaxLen :
         /\ li >= Needed(Len(sub), offset, zeros)
         /\ input \in [1..li -> Val]
    /\ \E lo \in 0..MaxLen :
         /\ lo >= Needed(Len(sub), offset, zeros)
         /\ output = OutputFresh(lo)
    /\ ppc = "start"
    /\ copies = <<>>
    /\ via = "none"

\* A packing call that issues `calls`, copying from src into dst; next is the
\* caller's position after a normal return.
PackOutcome(dst, src, calls, next, newDst, newPc) ==
    LET bad == FirstPastEnd(calls, Len(dst), Len(src))
    IN  \/ /\ newDst = ApplyCopies(dst, src, calls, Len(calls))
           /\ newPc = next
        \/ /\ bad # 0
           /\ newDst = ApplyCopies(dst, src, calls, bad - 1)
           /\ newPc = "abort"

ToSubVector ==
    /\ ppc = "start"
    /\ LET calls == ToSubCalls(Len(sub), offset, zeros)
       IN  /\ PackOutcome(sub, input, calls, "packed", sub', ppc')
           /\ copies' = calls
    /\ via' = "ToSubVector"
    /\ UNCHANGED <<input, output, offset, zeros, notPack>>

ToSubVectorNoZeros ==
    /\ ppc = "start"
    /\ zeros = <<>>
    /\ LET calls == ToSubCallsNoZeros(Len(sub), offset)
       IN  /\ PackOutcome(sub, input, calls, "packed", sub', ppc')
           /\ copies' = calls
    /\ via' = "ToSubVectorNoZeros"
    /\ UNCHANGED <<input, output, offset, zeros, notPack>>

FromSubVector ==
    /\ ppc = "packed"
    /\ LET calls == FromSubCalls(Len(sub), offset, zeros)
       IN  /\ PackOutcome(output, sub, calls, "unpacked", output', ppc')
           /\ copies' = calls
    /\ via' = "FromSubVector"
    /\ UNCHANGED <<sub, input, offset, zeros, notPack>>

FromSubVectorNoZeros ==
    /\ ppc = "packed"
    /\ zeros = <<>>
    /\ LET calls == FromSubCallsNoZeros(Len(sub), offset)
       IN  /\ PackOutcome(output, sub, calls, "unpacked", output', ppc')
           /\ copies' = calls
    /\ via' = "FromSubVectorNoZeros"
    /\ UNCHANGED <<sub, input, offset, zeros, notPack>>

NextPack ==
    \/ ToSubVector
    \/ ToSubVectorNoZeros
    \/ FromSubVector
    \/ FromSubVectorNoZeros

SpecPack == InitPack /\ [][NextPack]_vars

(***************************************************************************)
(* VectorHadamardIncrement(a, scale, b).  The outer loop starts a pass at  *)
(* every multiple of block below a.size(); the inner loop of a pass runs   *)
(* from the start of the block to a.end(), applying                        *)
(*     *it_a_block *= scale * *it_b_block                                  *)
(* with it_b_block at the same index as it_a_block.                        *)
(***************************************************************************)
block == 64

\* A faulty variant of HadamardUpdate: assignment in place of multiply-assign.
HadamardUpdate_Assign(x, s, y) == s * y

\* One execution of the loop body on element x of a and y of b.
HadamardUpdate(x, s, y) == x * (s * y)

\* The inner loop of the pass that starts at index start.
HadamardInnerPass(a, s, b, start) ==
    [k \in 1..Len(a) |->
        IF (k - 1) >= start THEN HadamardUpdate(a[k], s, b[k]) ELSE a[k]]

RECURSIVE HadamardOuterLoop(_, _, _, _)
HadamardOuterLoop(a, s, b, start) ==
    IF start >= Len(a)
    THEN a
    ELSE HadamardOuterLoop(HadamardInnerPass(a, s, b, start), s, b, start + block)

\* it_a += block leaves the vector's range [begin, end] after the last pass
\* unless a.size() is a multiple of block: undefined behaviour, which a plain
\* build turns into pointer arithmetic and a build with checked iterators
\* into an abort.
HadamardIteratorLeavesRange(n) == n % block # 0

PatternA(n, q) == [k \in 1..n |-> 1 + ((k + q) % 3)]
PatternB(n, p) == [k \in 1..n |-> 1 + ((k * p) % 2)]

InitHad ==
    /\ PackIdle /\ KernIdle /\ MatIdle
    /\ \E n \in 0..MaxVecLen :
         /\ \E q \in 0..2 : ha = PatternA(n, q)
         /\ \E p \in 0..1 : hb = PatternB(n, p)
    /\ hscale \in {-1, 0, 2}
    /\ hpc = "start"

VectorHadamardIncrement ==
    /\ hpc = "start"
    /\ ha' = HadamardOuterLoop(ha, hscale, hb, 0)
    /\ \/ hpc' = "done"
       \/ /\ HadamardIteratorLeavesRange(Len(ha))
          /\ hpc' = "abort"
    /\ UNCHANGED <<hscale, hb, notHad>>

NextHad == VectorHadamardIncrement

SpecHad == InitHad /\ [][NextHad]_vars

(***************************************************************************)
(* The BLAS routines the vector kernels call, by their reference           *)
(* semantics with unit strides.  An element read beyond the end of an      *)
(* operand is undefined behaviour: g stands for the value found there.  A  *)
(* write beyond the end of y lands outside the vector.                     *)
(***************************************************************************)
Rd(v, k, g) == IF k <= Len(v) THEN v[k] ELSE g

\* daxpy_(N, alpha, x, 1, y, 1): y[i] += alpha * x[i] for i in [0, N).
daxpy(N, alpha, x, y, g) ==
    [k \in 1..Len(y) |-> IF k <= N THEN y[k] + alpha * Rd(x, k, g) ELSE y[k]]

\* dsbmv_("L", N, 0, alpha, a, 1, x, 1, beta, y, 1) with beta = 0:
\* y[i] := alpha * a[i] * x[i] for i in [0, N); y is not read.
dsbmv(N, alpha, a, x, y, g) ==
    [k \in 1..Len(y) |->
        IF k <= N THEN alpha * Rd(a, k, g) * Rd(x, k, g) ELSE y[k]]

\* ddot_(N, x, 1, y, 1): the sum of x[i] * y[i] for i in [0, N).
RECURSIVE ddot(_, _, _, _)
ddot(N, x, y, g) ==
    IF N <= 0 THEN 0 ELSE ddot(N - 1, x, y, g) + Rd(x, N, g) * Rd(y, N, g)

\* What an out-of-range read may find.
Garbage == {0, 7}

(***************************************************************************)
(* The vector kernels.  Each takes N from one operand and hands N and the  *)
(* operands' data() to BLAS; none compares the operands' sizes.  A call    *)
(* whose N exceeds an operand's size is undefined behaviour: it crashes or *)
(* returns with whatever was read.                                         *)
(***************************************************************************)
InitKern ==
    /\ PackIdle /\ HadIdle /\ MatIdle
    /\ \E n \in 0..MaxKernLen : kout = [k \in 1..n |-> -k]
    /\ \E n \in 0..MaxKernLen : ka \in [1..n -> Val]
    /\ \E n \in 0..MaxKernLen : kb \in [1..n -> Val]
    /\ kscale \in {-1, 2}
    /\ kret = 0
    /\ kname = "none"
    /\ kpc = "start"

\* The outcome of a kernel that hands N to BLAS with operands of sizes in
\* lens: it returns, or, when N exceeds one of them, may crash instead.
KernelReturns(N, lens) ==
    \/ kpc' = "returned"
    \/ /\ \E l \in lens : N > l
       /\ kpc' = "crash"

\* VectorDiff(output, a, b): N = output.size(); output = a; output -= b.
VectorDiff ==
    /\ kpc = "start"
    /\ kname' = "VectorDiff"
    /\ LET N == Len(kout)
       IN  /\ \E g \in Garbage : kout' = daxpy(N, -1, kb, ka, g)
           /\ KernelReturns(N, {Len(ka), Len(kb)})
    /\ UNCHANGED <<ka, kb, kscale, kret, notKern>>

\* VectorIncrement(a, scale, b): N = a.size(); a += scale * b.
VectorIncrement ==
    /\ kpc = "start"
    /\ kname' = "VectorIncrement"
    /\ LET N == Len(kout)
       IN  /\ \E g \in Garbage : kout' = daxpy(N, kscale, kb, kout, g)
           /\ KernelReturns(N, {Len(kb)})
    /\ UNCHANGED <<ka, kb, kscale, kret, notKern>>

\* VectorHadamard(c, scale, a, b): N = c.size(); c_i = scale * a_i * b_i.
VectorHadamard ==
    /\ kpc = "start"
    /\ kname' = "VectorHadamard"
    /\ LET N == Len(kout)
       IN  /\ \E g \in Garbage : kout' = dsbmv(N, kscale, ka, kb, kout, g)
           /\ KernelReturns(N, {Len(ka), Len(kb)})
    /\ UNCHANGED <<ka, kb, kscale, kret, notKern>>

\* VectorScale(output, scale, input): fill output with 0; N = input.size();
\* output += scale * input.
VectorScale ==
    /\ kpc = "start"
    /\ kname' = "VectorScale"
    /\ LET N == Len(ka)
           filled == [k \in 1..Len(kout) |-> 0]
       IN  /\ \E g \in Garbage : kout' = daxpy(N, kscale, ka, filled, g)
           /\ KernelReturns(N, {Len(kout)})
    /\ UNCHANGED <<ka, kb, kscale, kret, notKern>>

\* VectorDot(a, b): N = a.size(); returns ddot over N elements.
VectorDot ==
    /\ kpc = "start"
    /\ kname' = "VectorDot"
    /\ LET N == Len(ka)
       IN  /\ \E g \in Garbage : kret' = ddot(N, ka, kb, g)
           /\ KernelReturns(N, {Len(kb)})
    /\ UNCHANGED <<kout, ka, kb, kscale, notKern>>

NextKern ==
    \/ VectorDiff
    \/ VectorIncrement
    \/ VectorHadamard
    \/ VectorScale
    \/ VectorDot

SpecKern == InitKern /\ [][NextKern]_vars

(***************************************************************************)
(* The ranks.  MpiWrapper (mpi.Sync, mpi.m_id) is the repository's wrapper *)
(* of the communication layer; it is modelled by its contract: Sync(buffer,*)
(* count, sourceRank) is a broadcast, the k-th Sync call of a rank         *)
(* receiving into its buffer the first count elements of what the source   *)
(* rank handed to its own k-th Sync call.  The source does not wait.       *)
(***************************************************************************)
SyncRanks == {0, 1, 2}
MatrixRanks == {0, 1}

Ranks == DOMAIN pc

m_id(r) == r

\* Sync can return on rank r: the source always, another rank once the
\* source has made the matching call.
SyncReady(r) == r = syncNode \/ seq[r] < Len(bcast)

\* The buffer of rank r after Sync(buffer, count, syncNode).
SyncBuffer(r, buffer, count) ==
    IF r = syncNode
    THEN buffer
    ELSE LET msg == bcast[seq[r] + 1]
         IN  [k \in 1..Len(buffer) |->
                 IF k <= count /\ k <= Len(msg) THEN msg[k] ELSE buffer[k]]

\* The broadcasts after rank r called Sync(buffer, count, syncNode).
SyncBcast(r, buffer, count) ==
    IF r = syncNode
    THEN Append(bcast, [k \in 1..count |-> buffer[k]])
    ELSE bcast

(***************************************************************************)
(* std::vector<double>::resize(n): keeps the first min(size, n) elements   *)
(* and value-initialises the rest.                                         *)
(***************************************************************************)
VectorResize(v, n) == [k \in 1..n |-> IF k <= Len(v) THEN v[k] ELSE 0]

(***************************************************************************)
(* matrix<T>::MpiSync(syncNode, mpi), a Sync call at a time, and           *)
(* MpiSyncVector(vector, syncNode, mpi), which it ends with.               *)
(***************************************************************************)
Container(r) == [lead |-> lead[r], sec |-> sec[r], data |-> data[r]]

\* The call begins: the log of the rank starts afresh, and the source's
\* container is recorded.
Begin(r) ==
    /\ pc[r] = "idle"
    /\ ops < MaxOps
    /\ ops' = ops + 1
    /\ pre' = IF r = syncNode THEN Container(r) ELSE pre

\* mpi.Sync(&m_dLeading, 1, syncNode);
MpiSync_Leading(r) ==
    /\ kind = "matrix"
    /\ Begin(r)
    /\ SyncReady(r)
    /\ lead' = [lead EXCEPT ![r] = SyncBuffer(r, <<lead[r]>>, 1)[1]]
    /\ bcast' = SyncBcast(r, <<lead[r]>>, 1)
    /\ seq' = [seq EXCEPT ![r] = @ + 1]
    /\ log' = [log EXCEPT ![r] = <<"Sync m_dLeading">>]
    /\ pc' = [pc EXCEPT ![r] = "syncSecond"]
    /\ UNCHANGED <<kind, sec, data, dim, syncNode, acc, notMat>>

\* A faulty variant of MpiSync_Second: m_dSecond is not synchronised.
MpiSync_Second_Skipped(r) ==
    /\ pc[r] = "syncSecond"
    /\ pc' = [pc EXCEPT ![r] = "syncDim"]
    /\ UNCHANGED <<kind, lead, sec, data, dim, syncNode, bcast, seq, log, pre,
                   acc, ops, notMat>>

\* mpi.Sync(&m_dSecond, 1, syncNode);
MpiSync_Second(r) ==
    /\ pc[r] = "syncSecond"
    /\ SyncReady(r)
    /\ sec' = [sec EXCEPT ![r] = SyncBuffer(r, <<sec[r]>>, 1)[1]]
    /\ bcast' = SyncBcast(r, <<sec[r]>>, 1)
    /\ seq' = [seq EXCEPT ![r] = @ + 1]
    /\ log' = [log EXCEPT ![r] = Append(@, "Sync m_dSecond")]
    /\ pc' = [pc EXCEPT ![r] = "syncDim"]
    /\ UNCHANGED <<kind, lead, data, dim, syncNode, pre, acc, ops, notMat>>

\* A faulty variant of ResizeIfNotSource: the resize left out.
ResizeIfNotSource_Never(r, v, n) == [vector |-> v, did |-> <<>>]

\* if(syncNode != mpi.m_id) { vector.resize(dim); }
\* The vector afterwards, and what was done to it.
ResizeIfNotSource(r, v, n) ==
    IF syncNode # m_id(r)
    THEN [vector |-> VectorResize(v, n), did |-> <<"resize">>]
    ELSE [vector |-> v, did |-> <<>>]

\* unsigned int dim = vector.size(); mpi.Sync(&dim, 1, syncNode);
\* if(syncNode != mpi.m_id) { vector.resize(dim); }
MpiSyncVector_Dim(r, logged) ==
    /\ SyncReady(r)
    /\ LET d == SyncBuffer(r, <<Len(data[r])>>, 1)[1]
           resized == ResizeIfNotSource(r, data[r], d)
       IN  /\ dim' = [dim EXCEPT ![r] = d]
           /\ data' = [data EXCEPT ![r] = resized.vector]
           /\ log' = [log EXCEPT ![r] = logged \o <<"Sync dim">> \o resized.did]
    /\ bcast' = SyncBcast(r, <<Len(data[r])>>, 1)
    /\ seq' = [seq EXCEPT ![r] = @ + 1]
    /\ pc' = [pc EXCEPT ![r] = "syncData"]
    /\ UNCHANGED <<kind, lead, sec, syncNode, acc, notMat>>

\* MpiSyncVector(m_data, syncNode, mpi) as the last statement of
\* matrix::MpiSync, up to its resize.
MpiSync_Vector(r) ==
    /\ pc[r] = "syncDim"
    /\ MpiSyncVector_Dim(r, log[r])
    /\ UNCHANGED <<pre, ops>>

\* MpiSyncVector called on a dvec, up to its resize.
MpiSyncVector_Begin(r) ==
    /\ kind = "vector"
    /\ Begin(r)
    /\ MpiSyncVector_Dim(r, <<>>)

\* mpi.Sync(vector.data(), dim, syncNode); and the return.
MpiSyncVector_Data(r) ==
    /\ pc[r] = "syncData"
    /\ SyncReady(r)
    /\ data' = [data EXCEPT ![r] = SyncBuffer(r, @, dim[r])]
    /\ bcast' = SyncBcast(r, data[r], dim[r])
    /\ seq' = [seq EXCEPT ![r] = @ + 1]
    /\ log' = [log EXCEPT ![r] = Append(@, "Sync data")]
    /\ pc' = [pc EXCEPT ![r] = "idle"]
    /\ UNCHANGED <<kind, lead, sec, dim, syncNode, pre, acc, ops, notMat>>

(***************************************************************************)
(* The synchronisation scenario: every rank holds a container of its own   *)
(* size and contents (rank r's elements are 10 r + 1, 10 r + 2, ...), and  *)
(* the ranks call MpiSync (matrices) or MpiSyncVector (vectors) with the   *)
(* same syncNode.  A matrix starts as its constructor or resize left it, a  *)
(* vector with any length.                                                 *)
(***************************************************************************)
RankData(r, n) == [k \in 1..n |-> 10 * r + k]

InitRanks(ranks) ==
    /\ pc = [r \in ranks |-> "idle"]
    /\ dim = [r \in ranks |-> 0]
    /\ seq = [r \in ranks |-> 0]
    /\ log = [r \in ranks |-> <<>>]
    /\ syncNode \in ranks
    /\ bcast = <<>>
    /\ pre = <<>>
    /\ acc = NoAccess
    /\ ops = 0

InitSync ==
    /\ PackIdle /\ HadIdle /\ KernIdle
    /\ InitRanks(SyncRanks)
    /\ kind \in {"matrix", "vector"}
    /\ IF kind = "matrix"
       THEN /\ lead \in [SyncRanks -> 0..MaxDim]
            /\ sec \in [SyncRanks -> 0..MaxDim]
            /\ data = [r \in SyncRanks |-> RankData(r, lead[r] * sec[r])]
       ELSE /\ lead = [r \in SyncRanks |-> 0]
            /\ sec = [r \in SyncRanks |-> 0]
            /\ \E n \in [SyncRanks -> 0..(MaxDim + 1)] :
                  data = [r \in SyncRanks |-> RankData(r, n[r])]

NextSync ==
    \/ \E r \in Ranks : MpiSync_Leading(r)
    \/ \E r \in Ranks : MpiSync_Second(r)
    \/ \E r \in Ranks : MpiSync_Vector(r)
    \/ \E r \in Ranks : MpiSyncVector_Begin(r)
    \/ \E r \in Ranks : MpiSyncVector_Data(r)

SpecSync == InitSync /\ [][NextSync]_vars

(***************************************************************************)
(* struct matrix<T>: construction, resize, operator(), SetRow.             *)
(***************************************************************************)
\* A faulty variant of MatrixResize: the dimensions are set, the buffer is not
\* reallocated.
MatrixResize_KeepsBuffer(m, dLeading, dSecond) ==
    [lead |-> dLeading, sec |-> dSecond, data |-> m.data]

\* resize(dLeading, dSecond): m_dLeading = dLeading; m_dSecond = dSecond;
\* m_data.resize(m_dLeading * m_dSecond);
MatrixResize(m, dLeading, dSecond) ==
    [lead |-> dLeading, sec |-> dSecond,
     data |-> VectorResize(m.data, dLeading * dSecond)]

\* A matrix object before its constructor's body runs: m_data is empty.
\* (matrix(dLeading, dSecond) leaves the dimensions to resize.)
Unconstructed == [lead |-> 0, sec |-> 0, data |-> <<>>]

SetContainer(r, m) ==
    /\ lead' = [lead EXCEPT ![r] = m.lead]
    /\ sec' = [sec EXCEPT ![r] = m.sec]
    /\ data' = [data EXCEPT ![r] = m.data]

\* A rank calls an operation of its matrix.
Idle(r) ==
    /\ kind = "matrix"
    /\ pc[r] = "idle"
    /\ ops < MaxOps
    /\ ops' = ops + 1

\* matrix(): m_dLeading(0), m_dSecond(0)
MatrixDefault(r) ==
    /\ Idle(r)
    /\ SetContainer(r, [lead |-> 0, sec |-> 0, data |-> <<>>])
    /\ UNCHANGED <<kind, dim, pc, syncNode, bcast, seq, log, pre, acc, notMat>>

\* matrix(dLeading, dSecond) { this->resize(dLeading, dSecond); }
MatrixConstruct(r, dLeading, dSecond) ==
    /\ Idle(r)
    /\ SetContainer(r, MatrixResize(Unconstructed, dLeading, dSecond))
    /\ UNCHANGED <<kind, dim, pc, syncNode, bcast, seq, log, pre, acc, notMat>>

Resize(r, dLeading, dSecond) ==
    /\ Idle(r)
    /\ SetContainer(r, MatrixResize(Container(r), dLeading, dSecond))
    /\ UNCHANGED <<kind, dim, pc, syncNode, bcast, seq, log, pre, acc, notMat>>

\* row*m_dSecond+col, the argument of m_data.at().  (Unsigned 32-bit
\* arithmetic; it does not wrap for the dimensions and indices used here.)
ElementIndex(r, row, col) == row * sec[r] + col

\* std::vector::at(n): throws std::out_of_range unless n < size().
AtThrows(v, n) == ~(n < Len(v))

Access(r, form, row, col) ==
    LET n == ElementIndex(r, row, col)
    IN  [rank |-> r, form |-> form, row |-> row, col |-> col,
         lead |-> lead[r], sec |-> sec[r],
         outcome |-> IF AtThrows(data[r], n) THEN "out_of_range" ELSE "ok",
         at |-> IF AtThrows(data[r], n) THEN -1 ELSE n]

\* m(row, col) = v: T& operator()(row, col), and an assignment through the
\* reference.  The exception leaves the matrix as it was and reaches the
\* caller.
Assign(r, row, col, v) ==
    /\ Idle(r)
    /\ LET a == Access(r, "mutable", row, col)
       IN  data' = IF a.outcome = "ok"
                   THEN [data EXCEPT ![r][a.at + 1] = v]
                   ELSE data
    /\ UNCHANGED <<kind, lead, sec, dim, pc, syncNode, bcast, seq, log, pre, notMat>>

\* m(row, col) = v, its outcome observed.
Write(r, row, col, v) ==
    /\ Assign(r, row, col, v)
    /\ acc' = Access(r, "mutable", row, col)

\* m(row, col) = v, its outcome not observed.
WriteElement(r, row, col, v) ==
    /\ Assign(r, row, col, v)
    /\ UNCHANGED acc

\* T operator()(row, col) const
Read(r, row, col) ==
    /\ Idle(r)
    /\ acc' = Access(r, "const", row, col)
    /\ UNCHANGED <<kind, lead, sec, data, dim, pc, syncNode, bcast, seq, log, pre,
                   notMat>>

\* SetRow(row, rowBuffer):
\* CopyVector(&m_data[row*m_dSecond], rowBuffer.data(), rowBuffer.size());
\* A row outside the matrix makes the copy refer to, or write, elements
\* beyond the end of m_data: undefined behaviour, after which the rank has
\* crashed or the elements beyond the end went elsewhere.
SetRow(r, row, rowBuffer) ==
    /\ Idle(r)
    /\ LET first == row * sec[r]
           beyond == first >= Len(data[r]) \/ first + Len(rowBuffer) > Len(data[r])
       IN  /\ data' = [data EXCEPT
                          ![r] = CopyVector(@, first, rowBuffer, 0, Len(rowBuffer))]
           /\ \/ pc' = pc
              \/ /\ beyond
                 /\ pc' = [pc EXCEPT ![r] = "crashed"]
    /\ UNCHANGED <<kind, lead, sec, dim, syncNode, bcast, seq, log, pre, acc, notMat>>

(***************************************************************************)
(* The matrix scenario: every rank starts with a default-constructed       *)
(* matrix and calls the operations of its matrix in any order, MpiSync     *)
(* among them.  Elements are written as 1 through operator() and as 2      *)
(* through SetRow, whose row buffer has m_dSecond elements.                *)
(***************************************************************************)
InitMatrix ==
    /\ PackIdle /\ HadIdle /\ KernIdle
    /\ InitRanks(MatrixRanks)
    /\ kind = "matrix"
    /\ lead = [r \in MatrixRanks |-> 0]
    /\ sec = [r \in MatrixRanks |-> 0]
    /\ data = [r \in MatrixRanks |-> <<>>]

NextMatrix ==
    \/ \E r \in Ranks : MatrixDefault(r)
    \/ \E r \in Ranks, l, s \in 0..MaxDim : MatrixConstruct(r, l, s)
    \/ \E r \in Ranks, l, s \in 0..MaxDim : Resize(r, l, s)
    \/ \E r \in Ranks, row, col \in 0..MaxDim : WriteElement(r, row, col, 1)
    \/ \E r \in Ranks, row \in 0..MaxDim : SetRow(r, row, [k \in 1..sec[r] |-> 2])
    \/ \E r \in Ranks : MpiSync_Leading(r)
    \/ \E r \in Ranks : MpiSync_Second(r)
    \/ \E r \in Ranks : MpiSync_Vector(r)
    \/ \E r \in Ranks : MpiSyncVector_Data(r)

SpecMatrix == InitMatrix /\ [][NextMatrix]_vars

(***************************************************************************)
(* The element access scenario: one rank constructs a matrix of some       *)
(* dimensions and reads and writes elements through operator().            *)
(***************************************************************************)
AccessRanks == {0}

InitAccess ==
    /\ PackIdle /\ HadIdle /\ KernIdle
    /\ InitRanks(AccessRanks)
    /\ kind = "matrix"
    /\ \E l, s \in 0..MaxDim :
          LET m == MatrixResize(Unconstructed, l, s)
          IN  /\ lead = [r \in AccessRanks |-> m.lead]
              /\ sec = [r \in AccessRanks |-> m.sec]
              /\ data = [r \in AccessRanks |-> m.data]

NextAccess ==
    \/ \E r \in Ranks, row, col \in 0..MaxDim, v \in Val : Write(r, row, col, v)
    \/ \E r \in Ranks, row, col \in 0..MaxDim : Read(r, row, col)

SpecAccess == InitAccess /\ [][NextAccess]_vars

(***************************************************************************)
(* Properties of the packing protocol.                                     *)
(***************************************************************************)
\* C1: round trip.  After ToSubVector(sub, input, offset, zeros) and then
\* FromSubVector(sub, output, offset, zeros) have both returned, output
\* equals input at every index k of [offset, offset + n - |zeros|).
C1_RoundTrip ==
    ppc = "unpacked" =>
        \A k \in offset..(offset + Len(sub) - Len(zeros) - 1) :
            output[k + 1] = input[k + 1]

C1_Witness ==
    /\ ppc = "unpacked"
    /\ via = "FromSubVector"
    /\ Len(zeros) >= 1
    /\ Len(sub) - Len(zeros) >= 2
    /\ offset >= 1

\* C7 (as claimed): when the trailing run is empty (the last zeros entry is
\* sub.size()-1) no CopyVector call is issued for it, and no call refers to
\* an element at or beyond the end of the vectors it copies between.
C7_EmptyRunsAreSkipped ==
    LET dstLen == IF via = "ToSubVector" THEN Len(sub) ELSE Len(output)
        srcLen == IF via = "ToSubVector" THEN Len(input) ELSE Len(sub)
    IN  ( /\ via \in {"ToSubVector", "FromSubVector"}
          /\ Len(zeros) >= 1
          /\ zeros[Len(zeros)] = Len(sub) - 1 )
        => \A i \in 1..Len(copies) :
              /\ copies[i].n > 0
              /\ ~RefsPastEnd(copies[i], dstLen, srcLen)

\* C9: ToSubVector writes input[offset + j - |{z in zeros : z < j}|] to
\* every position j of sub that is not in zeros, leaves the positions in
\* zeros and the input as they were, and with empty zeros gives
\* sub[j] = input[offset + j], which is what the overload without zeros
\* gives.
C9_ToSubMapping ==
    [][ (ppc = "start" /\ ppc' = "packed") =>
          /\ input' = input
          /\ Len(sub') = Len(sub)
          /\ \A j \in 0..(Len(sub) - 1) :
                IF IsZero(zeros, j)
                THEN sub'[j + 1] = sub[j + 1]
                ELSE sub'[j + 1] = input[offset + j - ZerosBelow(zeros, j) + 1]
          /\ (zeros = <<>> =>
                sub' = [j \in 1..Len(sub) |-> input[offset + j]]) ]_vars

C9_Witness ==
    /\ ppc = "packed"
    /\ via = "ToSubVector"
    /\ Len(sub) >= 3
    /\ zeros = <<1>>
    /\ offset >= 1
    /\ sub[2] = -2
    /\ sub[3] = input[offset + 2]

(***************************************************************************)
(* Properties of VectorHadamardIncrement.                                  *)
(***************************************************************************)
RECURSIVE Pow(_, _)
Pow(x, e) == IF e = 0 THEN 1 ELSE x * Pow(x, e - 1)

\* C5 (as claimed): after the call a_i = scale * b_i for every i, whatever
\* a_i was before.
C5_AssignsScaleTimesB ==
    [][ (hpc = "start" /\ hpc' = "done") =>
          \A k \in 1..Len(ha) : ha'[k] = hscale * hb[k] ]_vars

\* C5 (amended): the update is a multiply-assign, a_i *= scale * b_i, which
\* the element at index i receives floor(i / block) + 1 times: after the
\* call a_i = a_i(before) * (scale * b_i)^(floor(i / block) + 1).
C5_MultiplyAssigns ==
    [][ (hpc = "start" /\ hpc' = "done") =>
          /\ Len(ha') = Len(ha)
          /\ \A k \in 1..Len(ha) :
                ha'[k] = ha[k] * Pow(hscale * hb[k], ((k - 1) \div block) + 1) ]_vars

C5_Witness ==
    /\ hpc = "done"
    /\ Len(ha) > block
    /\ hscale = 2
    /\ hb[1] = 2 /\ ha[1] = 12
    /\ hb[2] = 1 /\ ha[2] = 2
    /\ hb[block + 1] = 2 /\ ha[block + 1] = 16

\* C6 (as claimed): the result is that of one unblocked pass which applies
\* the element update exactly once to every index, for every length.
C6_BlockSizeUnobservable ==
    [][ (hpc = "start" /\ hpc' = "done") =>
          ha' = [k \in 1..Len(ha) |-> ha[k] * (hscale * hb[k])] ]_vars

(***************************************************************************)
(* Properties of the vector kernels.                                       *)
(***************************************************************************)
\* The operands of kernel k do not all have the same size.
Mismatch(k) ==
    CASE k = "VectorDiff"      -> ~(Len(kout) = Len(ka) /\ Len(ka) = Len(kb))
      [] k = "VectorIncrement" -> Len(kout) # Len(kb)
      [] k = "VectorHadamard"  -> ~(Len(kout) = Len(ka) /\ Len(ka) = Len(kb))
      [] k = "VectorScale"     -> Len(kout) # Len(ka)
      [] k = "VectorDot"       -> Len(ka) # Len(kb)
      [] OTHER                 -> FALSE

\* C8 (as claimed): a kernel called with operands of different sizes never
\* returns normally (the mismatch is reported as an error instead).
C8_MismatchNeverReturns ==
    [][ (kpc = "start" /\ Mismatch(kname')) => kpc' # "returned" ]_vars

(***************************************************************************)
(* Properties of the synchronisation.                                      *)
(***************************************************************************)
\* C3: once the ranks have completed MpiSyncVector or matrix::MpiSync with
\* the same syncNode, every rank's container (the source's included) has the
\* dimensions, the length and the elements the source's container had when
\* the source made the call.
C3_SyncPostcondition ==
    \A r \in Ranks : (pc[r] = "idle" /\ seq[r] > 0) => Container(r) = pre

C3_Witness ==
    /\ kind = "matrix"
    /\ \A r \in Ranks : pc[r] = "idle" /\ seq[r] > 0
    /\ syncNode = 1
    /\ Len(pre.data) >= 2
    /\ Cardinality(Ranks) >= 3

SyncCalls(l) == SelectSeq(l, LAMBDA e : e # "resize")

IsMetadataSync(e) == e \in {"Sync m_dLeading", "Sync m_dSecond", "Sync dim"}

\* C4 (as claimed): a completed synchronisation of a vector or of a matrix
\* has issued exactly two Sync calls, one for the dimension metadata and
\* then one for the payload.
C4_OneMetadataSyncThenPayload ==
    \A r \in Ranks :
        (pc[r] = "idle" /\ log[r] # <<>>) =>
            /\ Len(SyncCalls(log[r])) = 2
            /\ IsMetadataSync(SyncCalls(log[r])[1])
            /\ SyncCalls(log[r])[2] = "Sync data"

\* What a synchronisation of rank r does, in order.
ExpectedLog(r) ==
    (IF kind = "matrix" THEN <<"Sync m_dLeading", "Sync m_dSecond">> ELSE <<>>)
    \o <<"Sync dim">>
    \o (IF r # syncNode THEN <<"resize">> ELSE <<>>)
    \o <<"Sync data">>

IsPrefix(p, q) == Len(p) <= Len(q) /\ \A i \in 1..Len(p) : p[i] = q[i]

\* C4 (amended): a vector synchronisation issues one metadata Sync (the
\* length) and then one payload Sync; a matrix synchronisation issues three
\* metadata Syncs (m_dLeading, m_dSecond, the buffer length) and then one
\* payload Sync.  The payload Sync is the last call, and a rank other than
\* the source resizes between the last metadata Sync and the payload Sync.
C4_MetadataSyncsThenPayload ==
    \A r \in Ranks :
        /\ IsPrefix(log[r], ExpectedLog(r))
        /\ (pc[r] = "idle" /\ log[r] # <<>>) => log[r] = ExpectedLog(r)

C4_Witness ==
    \E r \in Ranks :
        /\ kind = "matrix"
        /\ r # syncNode
        /\ pc[r] = "idle"
        /\ Len(log[r]) = 5
        /\ \E q \in Ranks : kind = "matrix" /\ q = syncNode /\ Len(log[q]) = 4

(***************************************************************************)
(* Properties of the matrix container.                                     *)
(***************************************************************************)
\* C2 (as claimed): operator()(row, col) fails with an out-of-range error
\* whenever row >= leadingDim or col >= secondDim, and otherwise accesses
\* the element at buffer offset row*secondDim + col.
C2_BoundsCheckedPerDimension ==
    acc # NoAccess =>
        IF acc.row >= acc.lead \/ acc.col >= acc.sec
        THEN acc.outcome = "out_of_range"
        ELSE acc.outcome = "ok" /\ acc.at = acc.row * acc.sec + acc.col

\* C10: whenever a rank is not inside a call, the length of its matrix's
\* buffer is leadingDim * secondDim.
C10_StorageInvariant ==
    \A r \in Ranks : pc[r] = "idle" => Len(data[r]) = lead[r] * sec[r]

C10_Witness ==
    \E r \in Ranks :
        /\ r # syncNode
        /\ pc[r] = "idle"
        /\ seq[r] >= 4
        /\ lead[r] >= 2 /\ sec[r] >= 1
        /\ Len(data[r]) >= 2

=============================================================================
